---- MODULE Spec2Model ----
(***************************************************************************)
(* Model of ee_data_retriever.py, the county level download script.  Its   *)
(* authenticate_ee, get_closest_sentinel_image, calculate_indices and      *)
(* append_to_csv are the same, statement for statement, in                 *)
(* ee_data_getter.py, the field level script.                              *)
(*                                                                         *)
(* The remote engine is the environment: what the image collection holds,  *)
(* which field polygons a county vectorizes to, which bands reduce to a    *)
(* null mean, the draw of the random column and whether a remote or file   *)
(* call raises are inputs chosen nondeterministically from small sets.     *)
(* What the script does with them (filter, sort, first, limit, header or   *)
(* append, loop order, exception propagation) is translated from the       *)
(* source.                                                                 *)
(*                                                                         *)
(*   SpecCsv     any sequence of append_to_csv calls on one path           *)
(*   SpecImg     get_closest_sentinel_image on a small image collection    *)
(*   SpecFields  get_fields_for_county on counties of up to 200 + Excess   *)
(*               polygons                                                  *)
(*   SpecMain    a run of the script: authenticate_ee, the loops of main,  *)
(*               the top-level exception handler                           *)
(*   SpecMainMixed  the same run when single bands can reduce to null      *)
(***************************************************************************)
EXTENDS Integers, Sequences, FiniteSets, TLC

VARIABLES
    csvExists,   \* os.path.isfile(csv_path)
    csvLines,    \* the lines of the CSV file, in file order
    calls,       \* the DataFrames passed to append_to_csv so far (history)
    images,      \* the remote image collection COPERNICUS/S2_SR_HARMONIZED
    date,        \* the target date of the image search, as a day number
    sentinel,    \* the value returned by get_closest_sentinel_image
    fields,      \* the field polygons the county vectorizes to
    df,          \* the DataFrame returned by get_fields_for_county
    pc,          \* position of the script
    si, di, ci,  \* indices of the state, date and county loops of main
    initialized, \* the engine session is initialized
    eeTrace,     \* the credential calls made, with their outcome
    requests,    \* number of data requests main has issued to the engine
    processed,   \* the iterations main has entered, in order
    last,        \* outcome of the iteration entered last
    prev,        \* outcome of the iteration entered before it
    errors       \* number of records logged by the top-level handler

vars == <<csvExists, csvLines, calls, images, date, sentinel, fields, df, pc,
          si, di, ci, initialized, eeTrace, requests, processed, last, prev, errors>>

csvVars == <<csvExists, csvLines, calls>>
imgVars == <<images, date, sentinel>>
fieldVars == <<fields, df>>
mainVars == <<si, di, ci, initialized, eeTrace, requests, processed, last, prev, errors>>

-----------------------------------------------------------------------------
(* Bounds of the model *)

MaxCalls == 2      \* append_to_csv calls in one behaviour of SpecCsv
MaxRows == 2       \* rows of a DataFrame handed to append_to_csv in SpecCsv
MaxImages == 2     \* images in the remote collection in SpecImg
DayMargin == 1     \* days modelled on each side beyond the search window
Excess == 1        \* field polygons modelled beyond the sample limit
NumDates == 2      \* weekly dates of the driver that are modelled

-----------------------------------------------------------------------------
(* DataFrames and CSV lines *)

None == [none |-> TRUE]

\* A row carries what identifies it and the set of index bands whose mean is
\* not null; the means themselves are floats computed remotely and are not
\* modelled.  "" and 0 stand for "column not set".
Row(id, bands, state, county, day) ==
    [id |-> id, bands |-> bands, state |-> state, county |-> county, date |-> day]

NoRow == Row(0, {}, "", "", 0)

\* pd.DataFrame(): no columns, no rows
EmptyFrame == [columns |-> <<>>, rows |-> <<>>]

\* df.empty
IsEmpty(data) == Len(data.columns) = 0 \/ Len(data.rows) = 0

\* DataFrame.to_csv(path, header=..., index=False): the lines written.  A
\* data line holds the values of the row in the order of data.columns.
to_csv(data, header) ==
    (IF header THEN <<[hdr |-> TRUE, cols |-> data.columns, row |-> NoRow]>>
               ELSE <<>>)
    \o [i \in 1..Len(data.rows) |->
           [hdr |-> FALSE, cols |-> data.columns, row |-> data.rows[i]]]

\* Mutant: the header is written on every call.
append_to_csv_always_header(exists, lines, data) ==
    [exists |-> TRUE, lines |-> lines \o to_csv(data, TRUE)]

\* Mutant: a frame equal to the one written last is not written again.
append_to_csv_dedup(exists, lines, data) ==
    IF ~exists
    THEN [exists |-> TRUE, lines |-> to_csv(data, TRUE)]
    ELSE LET new == to_csv(data, FALSE)
             n == Len(lines)
             k == Len(new)
         IN IF k <= n /\ SubSeq(lines, n - k + 1, n) = new
            THEN [exists |-> TRUE, lines |-> lines]
            ELSE [exists |-> TRUE, lines |-> lines \o new]

\* append_to_csv(data, path) on a file that exists or not and holds lines
append_to_csv(exists, lines, data) ==
    IF ~exists
    THEN [exists |-> TRUE, lines |-> to_csv(data, TRUE)]
    ELSE [exists |-> TRUE, lines |-> lines \o to_csv(data, FALSE)]

\* The parts of the state a specification does not use stay at these values.
IdleCsv == csvExists = FALSE /\ csvLines = <<>> /\ calls = <<>>
IdleImg == images = {} /\ date = 0 /\ sentinel = None
IdleFields == fields = <<>> /\ df = EmptyFrame
IdleMain ==
    /\ si = 0 /\ di = 0 /\ ci = 0
    /\ initialized = FALSE /\ eeTrace = <<>> /\ requests = 0
    /\ processed = <<>> /\ last = "-" /\ prev = "-" /\ errors = 0

-----------------------------------------------------------------------------
(* Dates.  A date is a day number, day 1 being 2022-06-01; strftime('%Y-%m-%d') *)
(* of a midnight timestamp and the engine's parse of it give the same day.  *)

FirstSunday == 5   \* pd.date_range("2022-06-01", ..., freq='W') starts 2022-06-05
WeekDays == 7

\* dates[k] of the county level script
DateOf(k) == FirstSunday + WeekDays * (k - 1)

-----------------------------------------------------------------------------
(* get_closest_sentinel_image *)

WindowDays == 3
CloudLimit == 10

\* An image of the collection: the day of system:time_start, its
\* CLOUDY_PIXEL_PERCENTAGE and whether its footprint intersects the geometry
\* the search is made for.
Image(day, cloud, inBounds) == [time |-> day, cloud |-> cloud, inBounds |-> inBounds]

\* ImageCollection.filterDate(start, end): start inclusive, end exclusive.
\* An image acquired at any time of day d has d <= time < d + 1 in days, so
\* it passes exactly when start <= d and d < end.
filterDate(coll, start, end) == { i \in coll : start <= i.time /\ i.time < end }

filterBounds(coll) == { i \in coll : i.inBounds }

\* .filter(ee.Filter.lt('CLOUDY_PIXEL_PERCENTAGE', 10))
filterCloud(coll) == { i \in coll : i.cloud < CloudLimit }

\* Mutant: sort('CLOUDY_PIXEL_PERCENTAGE').first()
sortFirst_by_cloud(coll) ==
    IF coll = {} THEN {None}
    ELSE { i \in coll : \A j \in coll : i.cloud <= j.cloud }

\* .sort('system:time_start').first(): the images that can come first in
\* ascending time order (the order of equal times is not specified); null
\* for an empty collection.
sortFirst(coll) ==
    IF coll = {} THEN {None}
    ELSE { i \in coll : \A j \in coll : i.time <= j.time }

\* The values get_closest_sentinel_image(geometry, date) can return.
get_closest_sentinel_image(coll, d) ==
    LET start_date == d - WindowDays
        end_date == d + WindowDays
    IN sortFirst(filterCloud(filterBounds(filterDate(coll, start_date, end_date))))

-----------------------------------------------------------------------------
(* SpecImg: get_closest_sentinel_image on any small image collection *)

CloudLevels == {0, CloudLimit - 1, CloudLimit}

DaysAround(d) == (d - WindowDays - DayMargin)..(d + WindowDays + DayMargin)

ImageUniverse(d) ==
    { Image(t, c, b) : t \in DaysAround(d), c \in CloudLevels, b \in BOOLEAN }

RECURSIVE SubsetsUpTo(_, _)
SubsetsUpTo(S, n) ==
    IF n = 0 THEN {{}}
    ELSE LET smaller == SubsetsUpTo(S, n - 1)
         IN smaller \cup { T \cup {x} : T \in smaller, x \in S }

InitImg ==
    /\ date = DateOf(1)
    /\ images \in SubsetsUpTo(ImageUniverse(date), MaxImages)
    /\ sentinel = None
    /\ pc = "img"
    /\ IdleCsv /\ IdleFields /\ IdleMain

GetClosest ==
    /\ pc = "img"
    /\ sentinel' \in get_closest_sentinel_image(images, date)
    /\ pc' = "imgdone"
    /\ UNCHANGED <<images, date, csvVars, fieldVars, mainVars>>

NextImg == GetClosest

SpecImg == InitImg /\ [][NextImg]_vars

-----------------------------------------------------------------------------
(* get_fields_for_county *)

SampleLimit == 200

\* The bands calculate_indices puts on the index image, in its order.
Bands == <<"NDVI", "EVI", "GNDVI", "NDWI", "SAVI">>

\* The properties every vectorized polygon carries: count and label from
\* reduceToVectors, random from randomColumn, field_id from the map.
BaseProps == <<"count", "label", "random", "field_id">>

\* A polygon of `fields` after compute_field_stats was mapped over it: its
\* id and the set of bands whose mean over the polygon is not null (a band
\* masked over the whole polygon reduces to null, and a null is not set).
Feature(id, bands) == [id |-> id, bands |-> bands]

Min(a, b) == IF a <= b THEN a ELSE b

\* field_data.filter(ee.Filter.notNull(['NDVI']))
notNull(fc) == SelectSeq(fc, LAMBDA f : "NDVI" \in f.bands)

Reverse(q) == [i \in 1..Len(q) |-> q[Len(q) + 1 - i]]

\* .randomColumn('random').sort('random'): the order the random column
\* induces; the engine's draw is an input, taken from two orders.
RandomOrders == {"ascending", "descending"}
sortRandom(fc, order) == IF order = "ascending" THEN fc ELSE Reverse(fc)

\* .limit(n)
limit(fc, n) == SubSeq(fc, 1, Min(n, Len(fc)))

\* The keys of {**f['properties'], 'geometry': f['geometry']}
KeysOf(f) ==
    BaseProps \o SelectSeq(Bands, LAMBDA b : b \in f.bands) \o <<"geometry">>

InSeq(x, q) == \E i \in 1..Len(q) : q[i] = x

\* a followed by the elements of b that are not in a, in b's order
MergeKeys(a, b) == a \o SelectSeq(b, LAMBDA k : ~InSeq(k, a))

\* The columns of pd.DataFrame(list of dicts) for rows lo..hi: the keys in
\* the order in which they first appear over the rows.  (First appearance
\* order of a concatenation is the merge of the two halves' orders.)
RECURSIVE ColumnsIn(_, _, _)
ColumnsIn(fc, lo, hi) ==
    IF lo > hi THEN <<>>
    ELSE IF lo = hi THEN KeysOf(fc[lo])
    ELSE MergeKeys(ColumnsIn(fc, lo, (lo + hi) \div 2),
                   ColumnsIn(fc, (lo + hi) \div 2 + 1, hi))

ColumnsOf(fc) == ColumnsIn(fc, 1, Len(fc))

\* ee_to_pandas(fc)
ee_to_pandas(fc) ==
    [columns |-> ColumnsOf(fc),
     rows |-> [i \in 1..Len(fc) |-> Row(fc[i].id, fc[i].bands, "", "", 0)]]

\* Mutant: the limit is taken before the fields without NDVI are dropped.
get_fields_for_county_limit_first(snt, fc, order) ==
    IF snt = None THEN EmptyFrame
    ELSE ee_to_pandas(notNull(limit(sortRandom(fc, order), SampleLimit)))

\* get_fields_for_county(county_geom, date), given the image the search
\* returned, the polygons of the county with their statistics and the order
\* the random column induces.
get_fields_for_county(snt, fc, order) ==
    IF snt = None THEN EmptyFrame
    ELSE LET valid_fields == notNull(fc)
             sampled_fields == limit(sortRandom(valid_fields, order), SampleLimit)
         IN ee_to_pandas(sampled_fields)

-----------------------------------------------------------------------------
(* SpecFields: get_fields_for_county on counties of any size *)

AllBands == { Bands[i] : i \in 1..Len(Bands) }
\* NDVI and SAVI read B8 and B4 only; the other bands read a third band too.
RedNirBands == {"NDVI", "SAVI"}

FieldCounts == {0, 1, 2, SampleLimit, SampleLimit + Excess}

\* The bands of polygon i: every nullEvery-th polygon is masked entirely,
\* every partialEvery-th one has only the bands computed from B8 and B4.
BandsAt(i, nullEvery, partialEvery) ==
    IF nullEvery > 0 /\ i % nullEvery = 0 THEN {}
    ELSE IF partialEvery > 0 /\ i % partialEvery = 0 THEN RedNirBands
    ELSE AllBands

FieldInputs ==
    { [i \in 1..n |-> Feature(i, BandsAt(i, a, b))] :
        n \in FieldCounts, a \in 0..3, b \in 0..2 }

InitFields ==
    /\ date = DateOf(1)
    /\ images \in SubsetsUpTo(ImageUniverse(date), 1)
    /\ sentinel = None
    /\ fields \in FieldInputs
    /\ df = EmptyFrame
    /\ pc = "fields"
    /\ IdleCsv /\ IdleMain

GetFields ==
    /\ pc = "fields"
    /\ \E snt \in get_closest_sentinel_image(images, date), order \in RandomOrders :
          /\ sentinel' = snt
          /\ df' = get_fields_for_county(snt, fields, order)
    /\ pc' = "fieldsdone"
    /\ UNCHANGED <<images, date, fields, csvVars, mainVars>>

NextFields == GetFields

SpecFields == InitFields /\ [][NextFields]_vars

-----------------------------------------------------------------------------
(* authenticate_ee, main and the top-level handler of ee_data_retriever.py *)

States == <<"Iowa", "Illinois">>

\* counties.toList(counties.size()).getInfo(): the county names of the
\* state, in list order.  Two counties a state; Adams is in both states.
CountiesOf(state) ==
    IF state = "Iowa" THEN <<"Adair", "Adams">> ELSE <<"Adams", "Alexander">>

Call(name, out) == [call |-> name, out |-> out]

\* What ee.Initialize() and ee.Authenticate() can do: return, raise
\* ee.EEException, or raise another exception.
CallOutcomes == {"ok", "EEException", "Exception"}

\* Mutant: authenticate_ee returns after Authenticate without initializing.
authenticate_ee_no_reinit(at, out) ==
    IF at = "start"
    THEN IF out = "ok" THEN [pc |-> "loop", initialized |-> TRUE, raised |-> FALSE]
         ELSE IF out = "EEException"
              THEN [pc |-> "authenticate", initialized |-> FALSE, raised |-> FALSE]
              ELSE [pc |-> "start", initialized |-> FALSE, raised |-> TRUE]
    ELSE IF out = "ok" THEN [pc |-> "loop", initialized |-> FALSE, raised |-> FALSE]
         ELSE [pc |-> at, initialized |-> FALSE, raised |-> TRUE]

\* authenticate_ee, one engine call at a time: where control goes after the
\* call made at `at` ended with `out`.  "loop" means authenticate_ee returned.
authenticate_ee(at, out) ==
    IF at = "start"
    THEN \* try: ee.Initialize()
         IF out = "ok" THEN [pc |-> "loop", initialized |-> TRUE, raised |-> FALSE]
         ELSE IF out = "EEException"
              THEN [pc |-> "authenticate", initialized |-> FALSE, raised |-> FALSE]
              ELSE [pc |-> "start", initialized |-> FALSE, raised |-> TRUE]
    ELSE IF at = "authenticate"
    THEN \* except ee.EEException: ee.Authenticate()
         IF out = "ok" THEN [pc |-> "reinit", initialized |-> FALSE, raised |-> FALSE]
         ELSE [pc |-> "authenticate", initialized |-> FALSE, raised |-> TRUE]
    ELSE \* ee.Initialize() after authentication
         IF out = "ok" THEN [pc |-> "loop", initialized |-> TRUE, raised |-> FALSE]
         ELSE [pc |-> "reinit", initialized |-> FALSE, raised |-> TRUE]

\* Mutant: the exception is logged and the loop goes on.
on_exception_continue(errs) == [pc |-> "loop", errors |-> errs + 1]

\* try: main() except Exception as e: logging.error(...): the script ends.
on_exception(errs) == [pc |-> "failed", errors |-> errs + 1]

\* Mutant: for county in counties: for date in dates.
next_position_county_major(s, d, c) ==
    IF d < NumDates THEN [pc |-> "loop", si |-> s, di |-> d + 1, ci |-> c]
    ELSE IF c < Len(CountiesOf(States[s]))
         THEN [pc |-> "loop", si |-> s, di |-> 1, ci |-> c + 1]
    ELSE IF s < Len(States) THEN [pc |-> "loop", si |-> s + 1, di |-> 1, ci |-> 1]
    ELSE [pc |-> "done", si |-> s, di |-> d, ci |-> c]

\* The loop nest of main: for state in states: for date in dates:
\* for county in <county list>.  ci = 0 stands for the head of the date
\* loop, where the county list is fetched.
next_position(s, d, c) ==
    IF c < Len(CountiesOf(States[s]))
    THEN [pc |-> "loop", si |-> s, di |-> d, ci |-> c + 1]
    ELSE IF d < NumDates THEN [pc |-> "loop", si |-> s, di |-> d + 1, ci |-> 0]
    ELSE IF s < Len(States) THEN [pc |-> "loop", si |-> s + 1, di |-> 1, ci |-> 0]
    ELSE [pc |-> "done", si |-> s, di |-> d, ci |-> c]

\* df['state'] = state; df['county'] = ...; df['date'] = date
with_columns(frame, state, county, day) ==
    [columns |-> frame.columns \o <<"state", "county", "date">>,
     rows |-> [i \in 1..Len(frame.rows) |->
                  Row(frame.rows[i].id, frame.rows[i].bands, state, county, day)]]

\* Mutant: the frame is appended whether it is empty or not.
main_body_no_guard(exists, lines, frame, state, county, day) ==
    append_to_csv(exists, lines, with_columns(frame, state, county, day))

\* The body of the county loop after get_fields_for_county returned `frame`:
\* the file it leaves.
main_body(exists, lines, frame, state, county, day) ==
    IF ~IsEmpty(frame)
    THEN append_to_csv(exists, lines, with_columns(frame, state, county, day))
    ELSE [exists |-> exists, lines |-> lines]

\* The files a to_csv call that raises can leave: the file untouched (the
\* open failed) or opened and any prefix of the lines written.
to_csv_raises(exists, lines, data) ==
    LET new == to_csv(data, ~exists)
    IN {[exists |-> exists, lines |-> lines]} \cup
       { [exists |-> TRUE, lines |-> lines \o SubSeq(new, 1, k)] : k \in 0..Len(new) }

-----------------------------------------------------------------------------
(* SpecMain: a run of ee_data_retriever.py *)

\* What the engine can hold for one county and date.
DriverImages(day) ==
    { {}, {Image(day, 0, TRUE)}, {Image(day, CloudLimit, TRUE)},
      {Image(day + WindowDays, 0, TRUE)}, {Image(day - WindowDays, 0, FALSE)} }
DriverFieldCounts == {0, 1}
UniformKinds == {AllBands, {}}
MixedKinds == {AllBands, RedNirBands, {}}
DriverFields(kinds) ==
    UNION { { [i \in 1..n |-> Feature(i, k[i])] : k \in [1..n -> kinds] } :
              n \in DriverFieldCounts }

InitMain ==
    /\ pc = "start"
    /\ IdleCsv /\ IdleImg /\ IdleFields /\ IdleMain

Raise(file) ==
    LET h == on_exception(errors)
    IN /\ pc' = h.pc
       /\ errors' = h.errors
       /\ csvExists' = file.exists
       /\ csvLines' = file.lines

\* One engine call of authenticate_ee: Initialize, Authenticate, Initialize.
Authenticate ==
    /\ pc \in {"start", "authenticate", "reinit"}
    /\ \E out \in CallOutcomes :
          LET r == authenticate_ee(pc, out)
              name == IF pc = "authenticate" THEN "Authenticate" ELSE "Initialize"
          IN /\ eeTrace' = Append(eeTrace, Call(name, out))
             /\ initialized' = (initialized \/ r.initialized)
             /\ requests' = 0
             /\ IF r.raised
                THEN /\ Raise([exists |-> csvExists, lines |-> csvLines])
                     /\ UNCHANGED <<si, di, ci>>
                ELSE /\ pc' = r.pc
                     /\ si' = (IF r.pc = "loop" THEN 1 ELSE 0)
                     /\ di' = (IF r.pc = "loop" THEN 1 ELSE 0)
                     /\ ci' = 0
                     /\ UNCHANGED <<errors, csvExists, csvLines>>
    /\ UNCHANGED <<calls, imgVars, fieldVars, processed, last, prev>>

\* The head of the date loop: the county list is fetched from the engine.
FetchCounties ==
    /\ pc = "loop" /\ ci = 0
    /\ requests' = 1
    /\ \/ /\ ci' = 1
          /\ UNCHANGED <<pc, errors, csvExists, csvLines, last, prev>>
       \/ /\ Raise([exists |-> csvExists, lines |-> csvLines])
          /\ last' = "raised" /\ prev' = last
          /\ UNCHANGED ci
    /\ UNCHANGED <<calls, imgVars, fieldVars, si, di, initialized, eeTrace, processed>>

Enter == processed' = Append(processed, [s |-> si, d |-> di, c |-> ci])

\* One pass of the county loop body that raises nothing.
Iterate(kinds) ==
    /\ pc = "loop" /\ ci >= 1
    /\ Enter
    /\ LET state == States[si]
           county == CountiesOf(state)[ci]
           day == DateOf(di)
           nxt == next_position(si, di, ci)
       IN \E imgs \in DriverImages(day), fc \in DriverFields(kinds), order \in RandomOrders :
          \E snt \in get_closest_sentinel_image(imgs, day) :
             LET frame == get_fields_for_county(snt, fc, order)
                 file == main_body(csvExists, csvLines, frame, state, county, day)
             IN /\ csvExists' = file.exists
                /\ csvLines' = file.lines
                /\ last' = (IF snt = None THEN "none"
                            ELSE IF IsEmpty(frame) THEN "empty" ELSE "rows")
                /\ requests' = (IF snt = None THEN 1 ELSE 2)
                /\ pc' = nxt.pc /\ si' = nxt.si /\ di' = nxt.di /\ ci' = nxt.ci
    /\ prev' = last
    /\ UNCHANGED <<calls, imgVars, fieldVars, initialized, eeTrace, errors>>

\* One pass of the county loop body in which a call raises: sentinel.getInfo(),
\* the getInfo() of ee_to_pandas, or to_csv.
IterateRaises(kinds) ==
    /\ pc = "loop" /\ ci >= 1
    /\ Enter
    /\ LET state == States[si]
           county == CountiesOf(state)[ci]
           day == DateOf(di)
           same == [exists |-> csvExists, lines |-> csvLines]
       IN \/ requests' = 1 /\ Raise(same)
          \/ requests' = 2 /\ Raise(same)
          \/ /\ requests' = 2
             /\ \E fc \in DriverFields(kinds), order \in RandomOrders :
                   LET frame == get_fields_for_county(Image(day, 0, TRUE), fc, order)
                       data == with_columns(frame, state, county, day)
                   IN /\ ~IsEmpty(frame)
                      /\ \E file \in to_csv_raises(csvExists, csvLines, data) : Raise(file)
    /\ last' = "raised" /\ prev' = last
    /\ UNCHANGED <<calls, imgVars, fieldVars, si, di, ci, initialized, eeTrace>>

NextMain ==
    \/ Authenticate
    \/ FetchCounties
    \/ Iterate(UniformKinds)
    \/ IterateRaises(UniformKinds)

SpecMain == InitMain /\ [][NextMain]_vars

\* The same run when a polygon can have an NDVI mean and no NDWI mean.
NextMainMixed ==
    \/ Authenticate
    \/ FetchCounties
    \/ Iterate(MixedKinds)
    \/ IterateRaises(MixedKinds)

SpecMainMixed == InitMain /\ [][NextMainMixed]_vars

-----------------------------------------------------------------------------
(* SpecCsv: any sequence of append_to_csv calls on one path *)

ColumnLists == { <<"NDVI", "geometry">>, <<"NDVI", "NDWI", "geometry">> }
RowIds == {1, 2}

SeqsUpTo(S, n) == UNION { [1..k -> S] : k \in 0..n }

Frames ==
    {EmptyFrame} \cup
    { [columns |-> c, rows |-> r] :
        c \in ColumnLists,
        r \in { [i \in 1..Len(s) |-> Row(s[i], {"NDVI"}, "", "", 0)] : s \in SeqsUpTo(RowIds, MaxRows) } }

InitCsv ==
    /\ csvExists = FALSE
    /\ csvLines = <<>>
    /\ calls = <<>>
    /\ pc = "csv"
    /\ IdleImg /\ IdleFields /\ IdleMain

AppendCall ==
    /\ pc = "csv"
    /\ Len(calls) < MaxCalls
    /\ \E data \in Frames :
          LET f == append_to_csv(csvExists, csvLines, data)
          IN /\ csvExists' = f.exists
             /\ csvLines' = f.lines
             /\ calls' = Append(calls, data)
    /\ UNCHANGED <<pc, imgVars, fieldVars, mainVars>>

NextCsv == AppendCall

SpecCsv == InitCsv /\ [][NextCsv]_vars

-----------------------------------------------------------------------------
(* Claims about append_to_csv, checked under SpecCsv *)

RECURSIVE RowsInCallOrder(_)
RowsInCallOrder(cs) ==
    IF cs = <<>> THEN <<>>
    ELSE RowsInCallOrder(SubSeq(cs, 1, Len(cs) - 1)) \o cs[Len(cs)].rows

HeaderPositions == { i \in 1..Len(csvLines) : csvLines[i].hdr }

\* C1: starting with the file absent, the header is written by the first call
\* only: the file holds exactly one header line, it is line 1 and names the
\* columns of the first frame, and the lines after it are the rows of all
\* the calls in call order.
C1_HeaderOnceThenRows ==
    /\ csvExists <=> calls # <<>>
    /\ csvExists =>
          /\ HeaderPositions = {1}
          /\ csvLines[1].cols = calls[1].columns
          /\ [i \in 1..(Len(csvLines) - 1) |-> csvLines[i + 1].row]
                = RowsInCallOrder(calls)

C1_Witness ==
    /\ Len(calls) = 2
    /\ calls[1].rows # <<>> /\ calls[2].rows # <<>>
    /\ Len(csvLines) = 1 + Len(calls[1].rows) + Len(calls[2].rows)

\* C6 as claimed: a second call with the same data leaves the file with the
\* content it had after the first call.
C6_Idempotent ==
    (Len(calls) = 2 /\ calls[1] = calls[2]) =>
        csvLines = to_csv(calls[1], TRUE)

\* C6 as amended: a call that repeats the data of the previous call on an
\* existing file keeps every line of the file and adds each row of the data
\* once more, without a header; the file grows by the number of rows.
C6_RepeatDuplicatesRows ==
    [][ (calls # <<>> /\ Len(calls') = Len(calls) + 1
            /\ calls'[Len(calls')] = calls[Len(calls)])
        => LET d == calls[Len(calls)]
               n == Len(csvLines)
           IN /\ Len(csvLines') = n + Len(d.rows)
              /\ SubSeq(csvLines', 1, n) = csvLines
              /\ \A i \in 1..Len(d.rows) :
                    /\ ~csvLines'[n + i].hdr
                    /\ csvLines'[n + i].row = d.rows[i] ]_vars

C6_Witness ==
    /\ Len(calls) = 2 /\ calls[1] = calls[2] /\ Len(calls[1].rows) = 2
    /\ Len(csvLines) = 5
    /\ csvLines[2].row = csvLines[4].row /\ csvLines[3].row = csvLines[5].row

-----------------------------------------------------------------------------
(* Claims about get_closest_sentinel_image, checked under SpecImg *)

\* The images of the collection that intersect the geometry and fall in the
\* window the code filters on.
InWindow == { i \in images : i.inBounds /\ date - WindowDays <= i.time
                                         /\ i.time < date + WindowDays }

\* C2 as claimed: the image returned is the least cloudy one: its cloud
\* percentage is no greater than that of any candidate that intersects the
\* geometry and falls in the window.
C2_LeastCloudy ==
    (pc = "imgdone" /\ sentinel # None) =>
        \A c \in InWindow : sentinel.cloud <= c.cloud

\* C2 as amended: the image returned is the earliest one among the images
\* that intersect the geometry, fall in the window and have a cloud
\* percentage below 10; None is returned exactly when there is no such image.
C2_EarliestBelowCloudLimit ==
    pc = "imgdone" =>
        LET good == { i \in InWindow : i.cloud < CloudLimit }
        IN /\ (sentinel = None) <=> (good = {})
           /\ sentinel # None =>
                 /\ sentinel \in good
                 /\ \A c \in good : sentinel.time <= c.time

C2_Witness ==
    /\ pc = "imgdone" /\ sentinel # None
    /\ \E c \in InWindow : c.cloud < sentinel.cloud /\ c.time > sentinel.time

\* C3: the window is the target date plus or minus 3 days: no image from
\* outside date-3 .. date+3 is returned, and an image acquired on any of
\* those days is a candidate, so when such an image intersects the geometry
\* and is below the cloud limit the search does not come back empty.
C3_WindowPlusMinus3Inclusive ==
    pc = "imgdone" =>
        /\ sentinel # None =>
              sentinel.time \in (date - WindowDays)..(date + WindowDays)
        /\ (\E i \in images : /\ i.inBounds /\ i.cloud < CloudLimit
                              /\ i.time \in (date - WindowDays)..(date + WindowDays))
              => sentinel # None

-----------------------------------------------------------------------------
(* Claims about get_fields_for_county, checked under SpecFields *)

ValidFieldIds == { i \in 1..Len(fields) : "NDVI" \in fields[i].bands }

\* C8: every call returns at most 200 rows, whatever the number of polygons;
\* the limit is taken after the polygons without an NDVI value are dropped,
\* so the rows are min(200, number of polygons with NDVI) distinct polygons,
\* each with a non-null NDVI.
C8_BoundedSampleOfValidFields ==
    pc = "fieldsdone" =>
        /\ Len(df.rows) <= SampleLimit
        /\ \A i \in 1..Len(df.rows) :
              /\ "NDVI" \in df.rows[i].bands
              /\ df.rows[i].id \in ValidFieldIds
        /\ \A i, j \in 1..Len(df.rows) : df.rows[i].id = df.rows[j].id => i = j
        /\ sentinel # None =>
              Len(df.rows) = Min(SampleLimit, Cardinality(ValidFieldIds))

C8_Witness ==
    /\ pc = "fieldsdone" /\ sentinel # None
    /\ Cardinality(ValidFieldIds) > SampleLimit
    /\ Len(df.rows) = SampleLimit

-----------------------------------------------------------------------------
(* Claims about authenticate_ee and main, checked under SpecMain *)

Iterations ==
    { [s |-> s, d |-> d, c |-> c] :
        s \in 1..Len(States), d \in 1..NumDates, c \in 1..Len(CountiesOf(States[1])) }

ProcessedSet == { processed[i] : i \in 1..Len(processed) }

DataLineNumbers == { i \in 1..Len(csvLines) : ~csvLines[i].hdr }

\* C4: when no image is found for an iteration, main leaves the CSV as it
\* was (content and existence), logs no error and goes on with the next
\* iteration; a run that ends normally has entered every iteration.
C4_MissingImageSkipsAndContinues ==
    /\ [][ (processed' # processed /\ last' = "none") =>
              /\ csvLines' = csvLines
              /\ csvExists' = csvExists
              /\ errors' = errors
              /\ pc' \in {"loop", "done"}
              /\ pc' = "done" <=> ProcessedSet' = Iterations ]_vars
    /\ [](pc = "done" => ProcessedSet = Iterations)

C4_Witness ==
    /\ Len(processed) = 2
    /\ prev = "none" /\ last = "rows"
    /\ Len(csvLines) = 2
    /\ csvLines[2].row.county = CountiesOf(States[1])[2]

\* state, then date, then county
BeforeSDC(p, q) ==
    \/ p.s < q.s
    \/ p.s = q.s /\ p.d < q.d
    \/ p.s = q.s /\ p.d = q.d /\ p.c < q.c

\* state, then county, then date
BeforeSCD(p, q) ==
    \/ p.s < q.s
    \/ p.s = q.s /\ p.c < q.c
    \/ p.s = q.s /\ p.c = q.c /\ p.d < q.d

\* C5 as claimed: within one state, all the dates of a county are processed
\* before any date of the next county, and the rows of one county are
\* contiguous in the CSV.
C5_CountyThenDate ==
    /\ \A i, j \in 1..Len(processed) :
          i < j => BeforeSCD(processed[i], processed[j])
    /\ \A i, j, k \in DataLineNumbers :
          (i < j /\ j < k /\ csvLines[i].row.state = csvLines[k].row.state
                          /\ csvLines[i].row.county = csvLines[k].row.county)
          => /\ csvLines[j].row.state = csvLines[i].row.state
             /\ csvLines[j].row.county = csvLines[i].row.county

\* C5 as amended: the driver iterates states, then weekly dates, then
\* counties: the iterations are entered in that order without a gap, so
\* within one state all the counties of a date are processed before any
\* county of the next date, and the rows of one state and date are
\* contiguous in the CSV.
C5_DateThenCounty ==
    /\ processed # <<>> => processed[1] = [s |-> 1, d |-> 1, c |-> 1]
    /\ \A i \in 1..(Len(processed) - 1) :
          /\ BeforeSDC(processed[i], processed[i + 1])
          /\ ~\E q \in Iterations : /\ BeforeSDC(processed[i], q)
                                    /\ BeforeSDC(q, processed[i + 1])
    /\ \A i, j, k \in DataLineNumbers :
          (i < j /\ j < k /\ csvLines[i].row.state = csvLines[k].row.state
                          /\ csvLines[i].row.date = csvLines[k].row.date)
          => /\ csvLines[j].row.state = csvLines[i].row.state
             /\ csvLines[j].row.date = csvLines[i].row.date

\* Rows of Adair, Adams, Adair of the first state: the county's rows are
\* split by the other county's row.
C5_Witness ==
    /\ Len(csvLines) >= 4
    /\ csvLines[2].row.county = csvLines[4].row.county
    /\ csvLines[2].row.state = csvLines[4].row.state
    /\ csvLines[3].row.county # csvLines[2].row.county
    /\ csvLines[2].row.date = csvLines[3].row.date
    /\ csvLines[4].row.date > csvLines[3].row.date

AuthReturned == si >= 1

AuthenticateCalls == { i \in 1..Len(eeTrace) : eeTrace[i].call = "Authenticate" }

\* C7 as claimed: when authenticate_ee returns the session is initialized;
\* Authenticate runs only after a first Initialize failed with an engine
\* exception and is always followed by a second Initialize; no data request
\* is issued before authenticate_ee has returned.
C7_Bootstrap ==
    /\ AuthReturned => initialized
    /\ \A i \in AuthenticateCalls :
          /\ i = 2 /\ eeTrace[1] = Call("Initialize", "EEException")
          /\ pc # "reinit" =>
                i < Len(eeTrace) /\ eeTrace[i + 1].call = "Initialize"
    /\ requests > 0 => AuthReturned

\* C7 as amended: as claimed, except that the second Initialize follows
\* Authenticate when Authenticate returns normally; an exception raised by
\* Authenticate leaves authenticate_ee, is logged at top level and ends the
\* run with no second Initialize and the session not initialized.
C7_BootstrapUnlessAuthenticateRaises ==
    /\ AuthReturned => initialized
    /\ \A i \in AuthenticateCalls :
          /\ i = 2 /\ eeTrace[1] = Call("Initialize", "EEException")
          /\ (eeTrace[i].out = "ok" /\ pc # "reinit") =>
                i < Len(eeTrace) /\ eeTrace[i + 1].call = "Initialize"
          /\ eeTrace[i].out # "ok" =>
                /\ pc = "failed" /\ errors = 1
                /\ i = Len(eeTrace) /\ ~initialized /\ ~AuthReturned
    /\ requests > 0 => AuthReturned

C7_Witness ==
    /\ Len(eeTrace) = 3
    /\ eeTrace[2] = Call("Authenticate", "ok")
    /\ eeTrace[3] = Call("Initialize", "ok")
    /\ initialized /\ requests > 0 /\ processed # <<>>

\* C9: an exception raised in an iteration of main ends the run: it is
\* logged once, nothing is processed or written afterwards, and the lines
\* the file held before the iteration are still its first lines.
C9_ExceptionEndsRun ==
    /\ [](last = "raised" => pc = "failed" /\ errors = 1)
    /\ [][ last = "raised" =>
              UNCHANGED <<processed, csvLines, csvExists, errors>> ]_vars
    /\ [][ (last' = "raised" /\ last # "raised") =>
              /\ Len(csvLines') >= Len(csvLines)
              /\ SubSeq(csvLines', 1, Len(csvLines)) = csvLines
              /\ csvExists => csvExists' ]_vars

C9_Witness ==
    /\ last = "raised" /\ pc = "failed" /\ errors = 1
    /\ prev = "rows"
    /\ Len(processed) = 3 /\ Len(csvLines) >= 2
    /\ ProcessedSet # Iterations

-----------------------------------------------------------------------------
(* Claim about the columns of the CSV, checked under SpecMainMixed *)

\* C10: every data row of the CSV has the same columns, in the same order,
\* as the header line.
C10_RowsHaveHeaderColumns ==
    \A i \in 1..Len(csvLines) : csvLines[i].cols = csvLines[1].cols

====
